---------------------------- MODULE Spec2Model ----------------------------
(***************************************************************************)
(* Model of Coffee_Analysis.py: Newton's-law cooling of a cup of coffee,   *)
(* one creamer-mixing event, the cup+liquid equilibrium, and the search    *)
(* for the first sample at or below the drinkable target.                  *)
(*                                                                         *)
(* Numbers.  A float is modelled by an exact fraction <<n, d>> in lowest   *)
(* terms with d > 0; <<0, 0>> is IEEE NaN (numpy's 0.0/0.0).  Rounding of  *)
(* float64 is not modelled: every statement below is about the real-valued *)
(* arithmetic the code writes down.  Time is counted in whole ticks and    *)
(* the decay constant k in units of ln(2) per tick, so that                *)
(* np.exp(-k * t) = 2^(-k*t) is an exact fraction.                         *)
(***************************************************************************)
EXTENDS Integers, Sequences, FiniteSets

VARIABLES call, pc, inp, env

vars == <<call, pc, inp, env>>

---------------------------------------------------------------------------
(* Bounds of the function-level specification.                             *)
MaxTemp == 2
MaxTime == 3
MaxVol == 1
MaxK == 1
MaxMass == 1

---------------------------------------------------------------------------
(* Float arithmetic on exact fractions.                                    *)

Abs(x) == IF x < 0 THEN -x ELSE x

RECURSIVE GCD(_, _)
GCD(a, b) == IF b = 0 THEN a ELSE GCD(b, a % b)

RECURSIVE Pow2(_)
Pow2(x) == IF x = 0 THEN 1 ELSE 2 * Pow2(x - 1)

NaN == <<0, 0>>

IsNaN(a) == a[2] = 0

\* n/d in lowest terms, sign carried by the numerator (d # 0).
Norm(n, d) ==
    LET g == GCD(Abs(n), Abs(d))
        s == IF d < 0 THEN -1 ELSE 1
    IN  <<s * (n \div g), s * (d \div g)>>

R(i) == <<i, 1>>

FAdd(a, b) ==
    IF IsNaN(a) \/ IsNaN(b) THEN NaN
    ELSE LET g == GCD(a[2], b[2])
         IN  Norm(a[1] * (b[2] \div g) + b[1] * (a[2] \div g), (a[2] \div g) * b[2])

FNeg(a) == <<-a[1], a[2]>>

FSub(a, b) == FAdd(a, FNeg(b))

FMul(a, b) ==
    IF IsNaN(a) \/ IsNaN(b) THEN NaN
    ELSE LET g1 == GCD(Abs(a[1]), b[2])
             g2 == GCD(Abs(b[1]), a[2])
         IN  Norm((a[1] \div g1) * (b[1] \div g2), (a[2] \div g2) * (b[2] \div g1))

\* numpy float64 division: 0.0/0.0 is nan (a RuntimeWarning, no exception).
\* The model only divides zero by zero or by a nonzero number.
FDiv(a, b) ==
    IF IsNaN(a) \/ IsNaN(b) \/ b[1] = 0 THEN NaN
    ELSE FMul(a, Norm(b[2], b[1]))

\* IEEE comparisons: every comparison with NaN is false.
FLe(a, b) ==
    /\ ~IsNaN(a)
    /\ ~IsNaN(b)
    /\ LET g == GCD(a[2], b[2])
       IN  a[1] * (b[2] \div g) <= b[1] * (a[2] \div g)

FLt(a, b) ==
    /\ ~IsNaN(a)
    /\ ~IsNaN(b)
    /\ LET g == GCD(a[2], b[2])
       IN  a[1] * (b[2] \div g) < b[1] * (a[2] \div g)

FGt(a, b) == FLt(b, a)

\* np.exp(-x) for x = k*t, k in units of ln 2 per tick.
ExpNeg(x) == IF x >= 0 THEN <<1, Pow2(x)>> ELSE <<Pow2(-x), 1>>

---------------------------------------------------------------------------
(* 1. Utility functions.                                                   *)

to_celsius(f) == FDiv(FMul(FSub(f, R(32)), R(5)), R(9))

to_fahrenheit(c) == FAdd(FDiv(FMul(c, R(9)), R(5)), R(32))

---------------------------------------------------------------------------
(* 2. Physics engine.                                                      *)

newtons_law_cooling_growing(T0, Ta, k, t) ==
    FAdd(Ta, FMul(FSub(T0, Ta), ExpNeg(-(k * t))))

\* Ta + (T0 - Ta) * np.exp(-k * t), one sample.
newtons_law_cooling(T0, Ta, k, t) ==
    FAdd(Ta, FMul(FSub(T0, Ta), ExpNeg(k * t)))

\* The same call on an array of samples (numpy broadcasting).
newtons_law_cooling_arr(T0, Ta, k, ts) ==
    [i \in 1..Len(ts) |-> newtons_law_cooling(T0, Ta, k, ts[i])]

mask_before_strict(t, t_add) == t < t_add

\* t_array <= t_add
mask_before(t, t_add) == t <= t_add

\* t_array > t_add
mask_after(t, t_add) == t > t_add

RECURSIVE Take(_, _, _)
\* t_array[mask]: boolean-mask indexing keeps the selected samples in order.
Take(ts, t_add, before) ==
    IF ts = <<>> THEN <<>>
    ELSE LET keep == IF before THEN mask_before(Head(ts), t_add)
                     ELSE mask_after(Head(ts), t_add)
         IN  (IF keep THEN <<Head(ts)>> ELSE <<>>) \o Take(Tail(ts), t_add, before)

t_elapsed_unshifted(t, t_add) == t

\* t_after - t_add
t_elapsed(t, t_add) == t - t_add

concatenate_swapped(a, b) == b \o a

\* np.concatenate((T_before, T_after))
concatenate(a, b) == a \o b

\* (v_coffee * T + v_creamer * T_creamer) / (v_coffee + v_creamer)
T_mixture(v_coffee, T_coffee, v_creamer, T_creamer) ==
    FDiv(FAdd(FMul(v_coffee, T_coffee), FMul(v_creamer, T_creamer)),
         FAdd(v_coffee, v_creamer))

\* Result of a call: the exception it raised ("none" if it returned) and
\* the value it returned.
Returned(v) == [exc |-> "none", val |-> v]
Raised(e) == [exc |-> e, val |-> <<>>]

simulate_creamer_addition(T0_coffee, Ta, k, t_array, T_creamer, v_creamer, v_coffee, t_add) ==
    LET t_before == Take(t_array, t_add, TRUE)
        T_before == newtons_law_cooling_arr(T0_coffee, Ta, k, t_before)
    IN  IF Len(t_before) = 0
        THEN \* Python floats: a zero divisor raises ZeroDivisionError
             IF FAdd(v_coffee, v_creamer) = R(0) THEN Raised("ZeroDivisionError")
             ELSE Returned(newtons_law_cooling_arr(
                      T_mixture(v_coffee, T0_coffee, v_creamer, T_creamer),
                      Ta, k, t_array))
        ELSE LET T_coffee_at_moment == T_before[Len(T_before)]
                 \* a numpy float64 numerator: a zero divisor gives nan
                 T_mixture_start ==
                     T_mixture(v_coffee, T_coffee_at_moment, v_creamer, T_creamer)
                 t_after == Take(t_array, t_add, FALSE)
                 elapsed == [i \in 1..Len(t_after) |-> t_elapsed(t_after[i], t_add)]
                 T_after == newtons_law_cooling_arr(T_mixture_start, Ta, k, elapsed)
             IN  Returned(concatenate(T_before, T_after))

calculate_initial_equilibrium_cup_only(T0_liquid, m_liquid, c_liquid, T0_cup, m_cup, c_cup) ==
    LET C_liquid == FMul(m_liquid, c_liquid)
        C_cup == FMul(m_cup, c_cup)
    IN  IF FAdd(C_cup, C_cup) = R(0) THEN Raised("ZeroDivisionError")
        ELSE Returned(FDiv(FAdd(FMul(T0_liquid, C_liquid), FMul(T0_cup, C_cup)),
                           FAdd(C_cup, C_cup)))

\* Python floats throughout: a zero heat-capacity sum raises ZeroDivisionError.
calculate_initial_equilibrium(T0_liquid, m_liquid, c_liquid, T0_cup, m_cup, c_cup) ==
    LET C_liquid == FMul(m_liquid, c_liquid)
        C_cup == FMul(m_cup, c_cup)
    IN  IF FAdd(C_cup, C_liquid) = R(0) THEN Raised("ZeroDivisionError")
        ELSE Returned(FDiv(FAdd(FMul(T0_liquid, C_liquid), FMul(T0_cup, C_cup)),
                           FAdd(C_cup, C_liquid)))

---------------------------------------------------------------------------
(* Crossing time.                                                          *)

None == <<>>
Some(x) == <<x>>

\* np.min(y) > target: false as soon as one sample is <= target or is NaN.
MinAbove(y, target) ==
    /\ \A i \in 1..Len(y) : ~IsNaN(y[i])
    /\ \A i \in 1..Len(y) : FGt(y[i], target)

\* np.argmax(y <= target): first True, or index 0 when the mask is all False
\* (indices here are 1-based).
ArgmaxLe(y, target) ==
    IF \E i \in 1..Len(y) : FLe(y[i], target)
    THEN CHOOSE i \in 1..Len(y) :
             /\ FLe(y[i], target)
             /\ \A j \in 1..(i - 1) : ~FLe(y[j], target)
    ELSE 1

find_crossing_time_strict(t, y, target) ==
    IF Len(y) = 0 THEN Raised("ValueError")
    ELSE IF \A i \in 1..Len(y) : ~FLt(y[i], target) THEN Returned(None)
    ELSE Returned(Some(t[CHOOSE i \in 1..Len(y) :
                           /\ FLt(y[i], target)
                           /\ \A j \in 1..(i - 1) : ~FLt(y[j], target)]))

find_crossing_time_last(t, y, target) ==
    IF Len(y) = 0 THEN Raised("ValueError")
    ELSE IF MinAbove(y, target) THEN Returned(None)
    ELSE Returned(Some(t[CHOOSE i \in 1..Len(y) :
                           /\ FLe(y[i], target)
                           /\ \A j \in (i + 1)..Len(y) : ~FLe(y[j], target)]))

\* np.min of an empty array raises ValueError.
find_crossing_time(t, y, target) ==
    IF Len(y) = 0 THEN Raised("ValueError")
    ELSE IF MinAbove(y, target) THEN Returned(None)
    ELSE Returned(Some(t[ArgmaxLe(y, target)]))

---------------------------------------------------------------------------
(* Input domains of the direct calls.                                      *)

Temps == 0..MaxTemp
Ks == 0..MaxK
Vols == 0..MaxVol
Masses == 0..MaxMass
SpecificHeats == {1, 2}
Times == 0..MaxTime

SetMin(S) == CHOOSE m \in S : \A x \in S : m <= x

RECURSIVE SortedSeq(_)
SortedSeq(S) ==
    IF S = {} THEN <<>> ELSE <<SetMin(S)>> \o SortedSeq(S \ {SetMin(S)})

\* Time-ordered sample arrays: strictly increasing, possibly empty.
SampleArrays == {SortedSeq(S) : S \in SUBSET Times}

NoCall == [fn |-> "none"]
NoEnv == <<>>
Pending == [exc |-> "pending", val |-> <<>>]

\* The calls made directly on the physics functions: the function, its
\* arguments, and its result once it has been applied.
CoolingCalls ==
    [fn : {"newtons_law_cooling"}, T0 : Temps, Ta : Temps, k : Ks,
     t : SampleArrays, ret : {Pending}]

SimulateCalls ==
    [fn : {"simulate_creamer_addition"}, T0 : Temps, Ta : Temps, k : Ks,
     t : SampleArrays, T_creamer : Temps, v_creamer : Vols, v_coffee : Vols,
     t_add : Times, ret : {Pending}]

EquilibriumCalls ==
    [fn : {"calculate_initial_equilibrium"}, T0_liquid : Temps,
     m_liquid : Masses, c_liquid : SpecificHeats, T0_cup : Temps,
     m_cup : Masses, c_cup : SpecificHeats, ret : {Pending}]

\* A trajectory handed to find_crossing_time: one temperature per sample.
CrossingCall(ts, ys, target) ==
    [fn |-> "find_crossing_time", t |-> ts,
     y |-> [i \in 1..Len(ts) |-> R(ys[i])], target |-> target, ret |-> Pending]

---------------------------------------------------------------------------
(* Direct calls of the physics functions, one per action.                  *)

CallCooling ==
    /\ call.fn = "newtons_law_cooling"
    /\ call.ret = Pending
    /\ call' = [call EXCEPT !.ret =
                  Returned(newtons_law_cooling_arr(R(call.T0), R(call.Ta), call.k, call.t))]
    /\ UNCHANGED <<pc, inp, env>>

CallSimulate ==
    /\ call.fn = "simulate_creamer_addition"
    /\ call.ret = Pending
    /\ call' = [call EXCEPT !.ret =
                  simulate_creamer_addition(R(call.T0), R(call.Ta), call.k, call.t,
                      R(call.T_creamer), R(call.v_creamer), R(call.v_coffee), call.t_add)]
    /\ UNCHANGED <<pc, inp, env>>

CallEquilibrium ==
    /\ call.fn = "calculate_initial_equilibrium"
    /\ call.ret = Pending
    /\ call' = [call EXCEPT !.ret =
                  calculate_initial_equilibrium(R(call.T0_liquid), R(call.m_liquid),
                      R(call.c_liquid), R(call.T0_cup), R(call.m_cup), R(call.c_cup))]
    /\ UNCHANGED <<pc, inp, env>>

CallFindCrossing ==
    /\ call.fn = "find_crossing_time"
    /\ call.ret = Pending
    /\ call' = [call EXCEPT !.ret = find_crossing_time(call.t, call.y, R(call.target))]
    /\ UNCHANGED <<pc, inp, env>>

---------------------------------------------------------------------------
(* The script, run top to bottom on one set of widget values.  Lengths are  *)
(* in metres, as in the source; volumes and masses are carried in units of *)
(* pi (np.pi multiplies every volume and cancels in every ratio).          *)

rho_coffee == 1000
c_coffee == 4186
d_cup == <<2, 25>>
t_cup == <<1, 200>>
rho_ceramic == 3000
c_ceramic == 900

\* np.linspace(0, 60, 1000): the sample grid, here three ticks from 0.
t_linspace == <<0, 1, 2>>

\* Widget values (Fahrenheit, ticks, percent) and the cup height of the
\* cup-properties block: 0.10 m as shipped, or 0 for an empty geometry.
RunInputs ==
    [Ta_f : {70, 50}, T0_coffee_f : {170, 104}, T_target_f : {120, 104},
     k_coffee : {1}, t_add : {0, 1}, T_creamer_f : {40}, vol_ratio : {5, 20},
     T0_hot_cup_f : {140}, h_cup : {<<1, 10>>, <<0, 1>>}]

Undef == <<>>

FreshEnv ==
    [m_cup |-> Undef, m_coffee |-> Undef, v_coffee_L |-> Undef,
     v_creamer_L |-> Undef, Ta_c |-> Undef, T0_coffee_c |-> Undef,
     T_creamer_c |-> Undef, T0_hot_cup_c |-> Undef, T0_cold_cup_c |-> Undef,
     T0_start_cold_c |-> Undef, T0_start_hot_c |-> Undef, t |-> Undef,
     y_cold_c |-> Undef, y_hot_c |-> Undef, y_creamer_c |-> Undef,
     y_cold |-> Undef, y_hot |-> Undef, y_creamer |-> Undef,
     time_cold |-> Undef, time_hot |-> Undef, time_creamer |-> Undef,
     exc |-> "none"]

Sq(a) == FMul(a, a)

\* Lines 77-93: masses and volumes from the cup geometry.
CupProperties ==
    /\ pc = "cup"
    /\ LET V_cup_m3 == FMul(Sq(FDiv(d_cup, R(2))), inp.h_cup)
           V_cup_wall_m3 ==
               FMul(FSub(Sq(FDiv(d_cup, R(2))),
                         Sq(FDiv(FSub(d_cup, FMul(R(2), t_cup)), R(2)))),
                    inp.h_cup)
           v_coffee_L == FMul(V_cup_m3, R(1000))
       IN  env' = [env EXCEPT
                     !.m_cup = FMul(R(rho_ceramic), V_cup_wall_m3),
                     !.m_coffee = FMul(R(rho_coffee), V_cup_m3),
                     !.v_coffee_L = v_coffee_L,
                     !.v_creamer_L = FMul(v_coffee_L, FDiv(R(inp.vol_ratio), R(100)))]
    /\ pc' = "convert"
    /\ UNCHANGED <<call, inp>>

\* Lines 98-102: widget values to Celsius.
ConvertInputs ==
    /\ pc = "convert"
    /\ env' = [env EXCEPT
                 !.Ta_c = to_celsius(R(inp.Ta_f)),
                 !.T0_coffee_c = to_celsius(R(inp.T0_coffee_f)),
                 !.T_creamer_c = to_celsius(R(inp.T_creamer_f)),
                 !.T0_hot_cup_c = to_celsius(R(inp.T0_hot_cup_f)),
                 !.T0_cold_cup_c = to_celsius(R(inp.Ta_f))]
    /\ pc' = "eq_cold"
    /\ UNCHANGED <<call, inp>>

\* Line 105.  No handler surrounds any statement of the script: an
\* exception ends the run where it is raised.
EquilibriumCold ==
    /\ pc = "eq_cold"
    /\ LET r == calculate_initial_equilibrium(env.T0_coffee_c, env.m_coffee,
                    R(c_coffee), env.T0_cold_cup_c, env.m_cup, R(c_ceramic))
       IN  IF r.exc # "none"
           THEN /\ pc' = "aborted"
                /\ env' = [env EXCEPT !.exc = r.exc]
           ELSE /\ pc' = "eq_hot"
                /\ env' = [env EXCEPT !.T0_start_cold_c = r.val]
    /\ UNCHANGED <<call, inp>>

\* Line 106.
EquilibriumHot ==
    /\ pc = "eq_hot"
    /\ LET r == calculate_initial_equilibrium(env.T0_coffee_c, env.m_coffee,
                    R(c_coffee), env.T0_hot_cup_c, env.m_cup, R(c_ceramic))
       IN  IF r.exc # "none"
           THEN /\ pc' = "aborted"
                /\ env' = [env EXCEPT !.exc = r.exc]
           ELSE /\ pc' = "curve_cold"
                /\ env' = [env EXCEPT !.T0_start_hot_c = r.val]
    /\ UNCHANGED <<call, inp>>

\* Lines 109 and 112.
CurveCold ==
    /\ pc = "curve_cold"
    /\ env' = [env EXCEPT
                 !.t = t_linspace,
                 !.y_cold_c = newtons_law_cooling_arr(env.T0_start_cold_c, env.Ta_c,
                                  inp.k_coffee, t_linspace)]
    /\ pc' = "curve_hot"
    /\ UNCHANGED <<call, inp>>

\* Line 113.
CurveHot ==
    /\ pc = "curve_hot"
    /\ env' = [env EXCEPT
                 !.y_hot_c = newtons_law_cooling_arr(env.T0_start_hot_c, env.Ta_c,
                                 inp.k_coffee, env.t)]
    /\ pc' = "curve_creamer"
    /\ UNCHANGED <<call, inp>>

\* Line 114.
CurveCreamer ==
    /\ pc = "curve_creamer"
    /\ LET r == simulate_creamer_addition(env.T0_start_hot_c, env.Ta_c,
                    inp.k_coffee, env.t, env.T_creamer_c, env.v_creamer_L,
                    env.v_coffee_L, inp.t_add)
       IN  IF r.exc # "none"
           THEN /\ pc' = "aborted"
                /\ env' = [env EXCEPT !.exc = r.exc]
           ELSE /\ pc' = "to_f"
                /\ env' = [env EXCEPT !.y_creamer_c = r.val]
    /\ UNCHANGED <<call, inp>>

to_fahrenheit_arr(ys) == [i \in 1..Len(ys) |-> to_fahrenheit(ys[i])]

\* Lines 117-119.
CurvesToFahrenheit ==
    /\ pc = "to_f"
    /\ env' = [env EXCEPT
                 !.y_cold = to_fahrenheit_arr(env.y_cold_c),
                 !.y_hot = to_fahrenheit_arr(env.y_hot_c),
                 !.y_creamer = to_fahrenheit_arr(env.y_creamer_c)]
    /\ pc' = "cross"
    /\ UNCHANGED <<call, inp>>

\* Lines 127-129.
CrossingTimes ==
    /\ pc = "cross"
    /\ LET rc == find_crossing_time(env.t, env.y_cold, R(inp.T_target_f))
           rh == find_crossing_time(env.t, env.y_hot, R(inp.T_target_f))
           rm == find_crossing_time(env.t, env.y_creamer, R(inp.T_target_f))
           bad == IF rc.exc # "none" THEN rc.exc
                  ELSE IF rh.exc # "none" THEN rh.exc ELSE rm.exc
       IN  IF bad # "none"
           THEN /\ pc' = "aborted"
                /\ env' = [env EXCEPT !.exc = bad]
           ELSE /\ pc' = "render"
                /\ env' = [env EXCEPT !.time_cold = rc.val, !.time_hot = rh.val,
                                      !.time_creamer = rm.val]
    /\ UNCHANGED <<call, inp>>

\* Lines 131-178: the plot and the three metrics.
Render ==
    /\ pc = "render"
    /\ pc' = "done"
    /\ UNCHANGED <<call, inp, env>>

InitCall ==
    /\ \/ call \in CoolingCalls
       \/ call \in SimulateCalls
       \/ call \in EquilibriumCalls
       \/ \E ts \in SampleArrays, target \in Temps :
            \E ys \in [1..Len(ts) -> Temps] : call = CrossingCall(ts, ys, target)
    /\ pc = "idle"
    /\ inp = NoEnv
    /\ env = NoEnv

InitRun ==
    /\ call = NoCall
    /\ pc = "cup"
    /\ inp \in RunInputs
    /\ env = FreshEnv

Init == InitCall \/ InitRun

Next ==
    \/ CallCooling
    \/ CallSimulate
    \/ CallEquilibrium
    \/ CallFindCrossing
    \/ CupProperties
    \/ ConvertInputs
    \/ EquilibriumCold
    \/ EquilibriumHot
    \/ CurveCold
    \/ CurveHot
    \/ CurveCreamer
    \/ CurvesToFahrenheit
    \/ CrossingTimes
    \/ Render

Spec == Init /\ [][Next]_vars

---------------------------------------------------------------------------
(* Vocabulary of the properties.                                           *)

Applied(f) == call.fn = f /\ call.ret # Pending
ReturnedFrom(f) == Applied(f) /\ call.ret.exc = "none"

FEq(a, b) == ~IsNaN(a) /\ ~IsNaN(b) /\ a = b
FMin(a, b) == IF FLe(a, b) THEN a ELSE b
FMax(a, b) == IF FLe(a, b) THEN b ELSE a

\* Temperature of a body cooling from Tstart toward Ta after dt ticks.
Cooled(Tstart, Ta, k, dt) == FAdd(Ta, FMul(FSub(Tstart, Ta), <<1, Pow2(k * dt)>>))

\* Heat-capacity (or volume) weighted average of two temperatures.
Weighted(Ca, TempA, Cb, TempB) ==
    FDiv(FAdd(FMul(R(Ca), TempA), FMul(R(Cb), TempB)), R(Ca + Cb))

\* Sample times of a simulate call at or before the event.
SamplesBefore == {call.t[i] : i \in {j \in 1..Len(call.t) : call.t[j] <= call.t_add}}
SetMax(S) == CHOOSE m \in S : \A x \in S : x <= m

\* What a simulate call has to return for the sample time tm.
PreMix == Cooled(R(call.T0), R(call.Ta), call.k, SetMax(SamplesBefore))
PostMix == Weighted(call.v_coffee, PreMix, call.v_creamer, R(call.T_creamer))
MixedAtStart == Weighted(call.v_coffee, R(call.T0), call.v_creamer, R(call.T_creamer))
ExpectedAt(tm) ==
    IF SamplesBefore = {} THEN Cooled(MixedAtStart, R(call.Ta), call.k, tm)
    ELSE IF tm <= call.t_add THEN Cooled(R(call.T0), R(call.Ta), call.k, tm)
    ELSE Cooled(PostMix, R(call.Ta), call.k, tm - call.t_add)

---------------------------------------------------------------------------
(* C1: simulate returns exactly one temperature per input sample, in the   *)
(* original time order: the output is as long as the sample array and its  *)
(* i-th entry is the temperature of the i-th sample time, in the           *)
(* mixed-at-start branch and in the before/after branch alike.             *)
C1_OnePerSampleInOrder ==
    ReturnedFrom("simulate_creamer_addition") =>
        /\ Len(call.ret.val) = Len(call.t)
        /\ call.v_coffee + call.v_creamer > 0 =>
             \A i \in 1..Len(call.t) : FEq(call.ret.val[i], ExpectedAt(call.t[i]))

\* A call with samples on both sides of the event and a visible jump.
C1_Witness ==
    /\ ReturnedFrom("simulate_creamer_addition")
    /\ Len(call.t) >= 3
    /\ call.t[2] <= call.t_add
    /\ call.t[Len(call.t)] > call.t_add
    /\ call.k > 0
    /\ call.T0 > call.Ta
    /\ call.T_creamer < call.Ta
    /\ call.v_coffee > 0 /\ call.v_creamer > 0

(* C2: with the event at eventTime = 0 and the first sample at 0, the      *)
(* call does not fail and the trajectory starts at the equilibrium of      *)
(* (T0, additive).  Stated for a host and an additive of positive volume.  *)
C2_StartsAtEquilibrium ==
    ( /\ Applied("simulate_creamer_addition")
      /\ call.t_add = 0
      /\ Len(call.t) > 0
      /\ call.t[1] = 0
      /\ call.v_coffee > 0
      /\ call.v_creamer > 0 )
    => /\ call.ret.exc = "none"
       /\ FEq(call.ret.val[1], MixedAtStart)

(* C3: when some sample is <= eventTime, every sample t <= eventTime has   *)
(* the unmixed cooling value of (T0, Ta, k, t); the pre-mix temperature is *)
(* the value at the last sample <= eventTime; the post-mix start is the    *)
(* volume-weighted average of it and the additive temperature; and every   *)
(* sample t > eventTime has the cooling value from that post-mix start     *)
(* after t - eventTime.                                                    *)
C3_PiecewiseOneMixing ==
    ( /\ ReturnedFrom("simulate_creamer_addition")
      /\ SamplesBefore # {}
      /\ call.v_coffee + call.v_creamer > 0 )
    => LET nb == Cardinality(SamplesBefore)
           pre == call.ret.val[nb]
           post == Weighted(call.v_coffee, pre, call.v_creamer, R(call.T_creamer))
       IN  /\ Len(call.ret.val) = Len(call.t)
           /\ call.t[nb] = SetMax(SamplesBefore)
           /\ \A i \in 1..nb :
                FEq(call.ret.val[i], Cooled(R(call.T0), R(call.Ta), call.k, call.t[i]))
           /\ FLe(FMin(pre, R(call.T_creamer)), post)
           /\ FLe(post, FMax(pre, R(call.T_creamer)))
           /\ \A i \in (nb + 1)..Len(call.t) :
                FEq(call.ret.val[i],
                    Cooled(post, R(call.Ta), call.k, call.t[i] - call.t_add))

\* The event falls strictly between two samples and the curve after it
\* differs from the one that keeps decaying from T0.
C3_Witness ==
    /\ ReturnedFrom("simulate_creamer_addition")
    /\ Len(call.t) >= 2
    /\ \E i \in 1..(Len(call.t) - 1) :
         /\ call.t[i] < call.t_add
         /\ call.t_add < call.t[i + 1]
         /\ call.ret.val[i + 1] #
              Cooled(R(call.T0), R(call.Ta), call.k, call.t[i + 1])
    /\ call.k > 0
    /\ call.v_coffee > 0 /\ call.v_creamer > 0

(* C4: find_crossing_time returns the time of the first sample whose       *)
(* temperature is <= target (every earlier sample is above target), and    *)
(* None exactly when no sample of the window is <= target.                 *)
C4_FirstSampleAtOrBelow ==
    ( Applied("find_crossing_time") /\ Len(call.y) > 0 )
    => LET hits == {i \in 1..Len(call.y) : FLe(call.y[i], R(call.target))}
       IN  /\ call.ret.exc = "none"
           /\ (hits = {}) <=> (call.ret.val = None)
           /\ hits # {} => call.ret.val = Some(call.t[SetMin(hits)])

C4_Witness ==
    /\ ReturnedFrom("find_crossing_time")
    /\ Len(call.y) >= 3
    /\ FGt(call.y[1], R(call.target))
    /\ FLe(call.y[2], R(call.target))
    /\ call.ret.val = Some(call.t[2])

(* C5: with non-negative heat capacities of positive sum, the equilibrium  *)
(* is symmetric in its two bodies and lies between the two temperatures,   *)
(* for the cup+liquid equilibrium and for the mixing inside simulate.      *)
C5_SymmetricAndBetween ==
    /\ ( ReturnedFrom("calculate_initial_equilibrium") =>
           LET e == call.ret.val
               swapped == calculate_initial_equilibrium(
                              R(call.T0_cup), R(call.m_cup), R(call.c_cup),
                              R(call.T0_liquid), R(call.m_liquid), R(call.c_liquid))
           IN  /\ swapped = call.ret
               /\ FLe(FMin(R(call.T0_liquid), R(call.T0_cup)), e)
               /\ FLe(e, FMax(R(call.T0_liquid), R(call.T0_cup))) )
    /\ ( ( /\ ReturnedFrom("simulate_creamer_addition")
           /\ Len(call.t) > 0
           /\ call.v_coffee + call.v_creamer > 0 ) =>
           LET nb == Cardinality(SamplesBefore)
               pre == IF nb = 0 THEN R(call.T0) ELSE call.ret.val[nb]
               Tc == R(call.T_creamer)
               mix == T_mixture(R(call.v_coffee), pre, R(call.v_creamer), Tc)
           IN  /\ FEq(mix, T_mixture(R(call.v_creamer), Tc, R(call.v_coffee), pre))
               /\ FLe(FMin(pre, Tc), mix)
               /\ FLe(mix, FMax(pre, Tc)) )

C5_Witness ==
    /\ ReturnedFrom("calculate_initial_equilibrium")
    /\ call.T0_liquid > call.T0_cup
    /\ call.m_liquid * call.c_liquid > call.m_cup * call.c_cup
    /\ call.m_cup > 0
    /\ FLt(R(call.T0_cup), call.ret.val)
    /\ FLt(call.ret.val, R(call.T0_liquid))

(* C6: whenever the summed heat capacity is zero the equilibrium fails    *)
(* with an error (InvalidConfiguration) instead of returning a             *)
(* temperature, in the cup+liquid computation and in the mixing step of    *)
(* simulate when hostVolume + additiveVolume is zero.  Any exception is    *)
(* accepted here as the failure.                                           *)
C6_ZeroCapacityRejected ==
    /\ ( ( /\ Applied("calculate_initial_equilibrium")
           /\ call.m_liquid * call.c_liquid + call.m_cup * call.c_cup = 0 )
         => call.ret.exc # "none" )
    /\ ( ( /\ Applied("simulate_creamer_addition")
           /\ call.v_coffee + call.v_creamer = 0 )
         => call.ret.exc # "none" )

(* C8: for k > 0 and t >= 0 the cooling law returns exactly T0 at t = 0    *)
(* and moves monotonically toward Ta without crossing it: strictly down    *)
(* if T0 > Ta, strictly up if T0 < Ta, constant if T0 = Ta.                *)
C8_MonotoneTowardAmbient ==
    ( ReturnedFrom("newtons_law_cooling") /\ call.k > 0 )
    => LET y == call.ret.val
           T0 == R(call.T0)
           Ta == R(call.Ta)
       IN  /\ \A i \in 1..Len(y) : call.t[i] = 0 => FEq(y[i], T0)
           /\ \A i \in 1..Len(y) : \A j \in (i + 1)..Len(y) :
                /\ call.T0 > call.Ta => FGt(y[i], y[j]) /\ FGt(y[j], Ta)
                /\ call.T0 < call.Ta => FLt(y[i], y[j]) /\ FLt(y[j], Ta)
                /\ call.T0 = call.Ta => FEq(y[i], Ta) /\ FEq(y[j], Ta)

C8_Witness ==
    /\ ReturnedFrom("newtons_law_cooling")
    /\ call.k > 0
    /\ call.T0 > call.Ta
    /\ Len(call.t) >= 3
    /\ call.t[1] = 0

\* A trajectory that starts strictly below the target and never falls.
WarmingFromBelow ==
    /\ Len(call.y) > 0
    /\ FLt(call.y[1], R(call.target))
    /\ \A i \in 1..(Len(call.y) - 1) : FLe(call.y[i], call.y[i + 1])

(* C9 as stated: for a trajectory that starts strictly below the target    *)
(* and warms toward it, find_crossing_time returns the first sample whose  *)
(* temperature is >= target, or None if there is none.                     *)
C9_FollowsDirection ==
    ( Applied("find_crossing_time") /\ WarmingFromBelow )
    => LET reach == {i \in 1..Len(call.y) : FLe(R(call.target), call.y[i])}
       IN  call.ret = Returned(IF reach = {} THEN None
                               ELSE Some(call.t[SetMin(reach)]))

(* C9 amended: find_crossing_time does not follow the direction of the     *)
(* trajectory; whenever the trajectory starts at or below the target, and  *)
(* so for one that starts strictly below it and warms, it returns the      *)
(* first sample time of the window, never None.                            *)
C9_StartBelowReturnsFirstSample ==
    ( /\ Applied("find_crossing_time")
      /\ Len(call.y) > 0
      /\ FLe(call.y[1], R(call.target)) )
    => call.ret = Returned(Some(call.t[1]))

C9_Witness ==
    /\ Applied("find_crossing_time")
    /\ WarmingFromBelow
    /\ Len(call.y) >= 3
    /\ FLt(call.y[2], R(call.target))
    /\ FLe(R(call.target), call.y[3])
    /\ call.ret = Returned(Some(call.t[1]))

\* The run has got past line 114: the three Celsius curves exist.
CurvesComputed == pc \in {"to_f", "cross", "render", "done"}

=============================================================================
